---- MODULE Spec2Model ----
(***************************************************************************)
(* Chronology calculator (web_autumn_calc): the text-dating heuristic      *)
(* analyze_text_chronology, the Celery task calculate_chrono_async that     *)
(* delivers its result to the Go collector, and the FastAPI handler         *)
(* calculate_chrono of main.py.                                             *)
(*                                                                          *)
(* A text is a sequence of one-character strings.  An optional text is a    *)
(* record [isNone, chars]: Python's None is [isNone |-> TRUE].              *)
(* Floating point is modelled by exact arithmetic: a readability value is   *)
(* a fraction [num, den], an era score is a record [n, v, bonus] standing   *)
(* for 1000*n / (sqrt(sum1)*sqrt(v)) + bonus.                               *)
(***************************************************************************)
EXTENDS Integers, Sequences, FiniteSets, TLC

\* ------------------------------------------------------------------ bounds
\* largest number of pieces a request text is assembled from
MaxPieces == 4

\* --------------------------------------------------------------- characters
LOWER == ("A" :> "a") @@ ("B" :> "b") @@ ("C" :> "c") @@ ("D" :> "d") @@
         ("E" :> "e") @@ ("F" :> "f") @@ ("G" :> "g") @@ ("H" :> "h") @@
         ("I" :> "i") @@ ("J" :> "j") @@ ("K" :> "k") @@ ("L" :> "l") @@
         ("M" :> "m") @@ ("N" :> "n") @@ ("O" :> "o") @@ ("P" :> "p") @@
         ("Q" :> "q") @@ ("R" :> "r") @@ ("S" :> "s") @@ ("T" :> "t") @@
         ("U" :> "u") @@ ("V" :> "v") @@ ("W" :> "w") @@ ("X" :> "x") @@
         ("Y" :> "y") @@ ("Z" :> "z")

LowerLetters == {LOWER[c] : c \in DOMAIN LOWER}

\* \w of Python's re on the characters used here: the letters
IsWordChar(c) == c \in DOMAIN LOWER \/ c \in LowerLetters

\* the characters str.strip() removes
IsSpace(c) == c \in {" "}

\* the character class [.!?]
IsTerminator(c) == c \in {".", "!", "?"}

\* the character class [aeiouy]
IsVowel(c) == c \in {"a", "e", "i", "o", "u", "y"}

\* str.lower()
lower(s) == [i \in 1..Len(s) |-> IF s[i] \in DOMAIN LOWER THEN LOWER[s[i]] ELSE s[i]]

RECURSIVE lstrip(_)
lstrip(s) == IF s # <<>> /\ IsSpace(s[1]) THEN lstrip(Tail(s)) ELSE s

RECURSIVE rstrip(_)
rstrip(s) == IF s # <<>> /\ IsSpace(s[Len(s)]) THEN rstrip(SubSeq(s, 1, Len(s) - 1)) ELSE s

\* str.strip()
strip(s) == rstrip(lstrip(s))

\* re.findall(r'\b\w+\b', s): the maximal runs of word characters, left to right
RECURSIVE findall_words(_, _, _)
findall_words(s, i, cur) ==
    IF i > Len(s)
    THEN IF cur = <<>> THEN <<>> ELSE <<cur>>
    ELSE IF IsWordChar(s[i])
         THEN findall_words(s, i + 1, Append(cur, s[i]))
         ELSE (IF cur = <<>> THEN <<>> ELSE <<cur>>) \o findall_words(s, i + 1, <<>>)

\* first index at or after i that is not a terminator
RECURSIVE skip_terminators(_, _)
skip_terminators(s, i) ==
    IF i <= Len(s) /\ IsTerminator(s[i]) THEN skip_terminators(s, i + 1) ELSE i

\* re.split(r'[.!?]+', s): the fragments between runs of terminators
RECURSIVE split_sentences(_, _, _)
split_sentences(s, i, cur) ==
    IF i > Len(s)
    THEN <<cur>>
    ELSE IF IsTerminator(s[i])
         THEN <<cur>> \o split_sentences(s, skip_terminators(s, i), <<>>)
         ELSE split_sentences(s, i + 1, Append(cur, s[i]))

\* len(re.findall(r'[aeiouy]+', w)): the number of maximal vowel runs of w
vowel_groups(w) ==
    Cardinality({i \in 1..Len(w) : IsVowel(w[i]) /\ (i = 1 \/ ~IsVowel(w[i - 1]))})

RECURSIVE SumSeq(_)
SumSeq(q) == IF q = <<>> THEN 0 ELSE Head(q) + SumSeq(Tail(q))

RECURSIVE SumOver(_, _)
SumOver(f, S) ==
    IF S = {} THEN 0
    ELSE LET x == CHOOSE y \in S : TRUE IN f[x] + SumOver(f, S \ {x})

Max2(a, b) == IF a >= b THEN a ELSE b
Min2(a, b) == IF a <= b THEN a ELSE b

\* ------------------------------------------------------------- vocabularies
ANCHORS == <<1300, 1500, 1700, 1900>>

ARCHAIC_VOCABULARY ==
  (1300 :> {<<"t","h","o","u">>,
      <<"t","h","e","e">>,
      <<"t","h","y">>,
      <<"h","a","t","h">>,
      <<"d","o","s","t">>,
      <<"y","e">>,
      <<"v","e","r","i","l","y">>,
      <<"b","e","t","w","i","x","t">>,
      <<"r","e","g","i","n">>,
      <<"r","e","x">>,
      <<"a","n","n","o">>,
      <<"d","o","m","i","n","i">>}) @@
  (1500 :> {<<"s","h","a","l","l">>,
      <<"u","n","t","o">>,
      <<"u","p","o","n">>,
      <<"l","o","r","d">>,
      <<"k","i","n","g">>,
      <<"m","a","j","e","s","t","y">>,
      <<"w","h","e","r","e","a","s">>,
      <<"h","e","r","e","b","y">>,
      <<"a","f","o","r","e","s","a","i","d">>}) @@
  (1700 :> {<<"c","o","n","s","t","i","t","u","t","i","o","n">>,
      <<"l","i","b","e","r","t","y">>,
      <<"p","r","o","p","e","r","t","y">>,
      <<"r","e","a","s","o","n">>,
      <<"n","a","t","u","r","e">>,
      <<"s","o","c","i","e","t","y">>,
      <<"c","o","n","t","r","a","c","t">>,
      <<"f","e","d","e","r","a","l">>}) @@
  (1900 :> {<<"t","e","c","h","n","o","l","o","g","y">>,
      <<"s","y","s","t","e","m">>,
      <<"d","a","t","a">>,
      <<"a","n","a","l","y","s","i","s">>,
      <<"p","r","o","g","r","a","m">>,
      <<"n","e","t","w","o","r","k">>,
      <<"c","o","m","p","u","t","e","r">>,
      <<"d","i","g","i","t","a","l">>})

\* ------------------------------------------------------- readability (Flesch)
SentenceKept(s) == Len(strip(s)) > 1

\* the value 206.835 - 1.015*(W/S) - 84.6*(Sy/W) clamped to [0, 100], as the
\* fraction num/den with den = 1000*S*W; 50.0 is 50/1
safe_calculate_flesch_reading_ease(text) ==
    IF text = <<>> \/ Len(strip(text)) < 10
    THEN [num |-> 50, den |-> 1]
    ELSE LET sentences == SelectSeq(split_sentences(text, 1, <<>>), SentenceKept)
             num_sentences == Max2(Len(sentences), 1)
             words == findall_words(text, 1, <<>>)
             num_words == Max2(Len(words), 1)
             num_syllables == SumSeq([i \in 1..Len(words) |-> vowel_groups(lower(words[i]))])
             den == 1000 * num_sentences * num_words
             score == 206835 * num_sentences * num_words
                      - 1015 * num_words * num_words
                      - 84600 * num_syllables * num_sentences
         IN  [num |-> Max2(0, Min2(100 * den, score)), den |-> den]

\* readability < k and readability > k for an integer k
ReadLess(r, k) == r.num < k * r.den
ReadGreater(r, k) == r.num > k * r.den

\* ---------------------------------------------------------- cosine similarity
Range(q) == {q[i] : i \in 1..Len(q)}

\* collections.Counter(words)
Counter(words) == [w \in Range(words) |-> Cardinality({i \in 1..Len(words) : words[i] = w})]

\* {w: 1 for w in vocab}
vocab_vector(vocab) == [w \in vocab |-> 1]

\* numerator / (sqrt(sum1) * sqrt(sum2)) kept as [num, sum1, sum2]; the value
\* 0.0 of the two early exits is num = 0
safe_cosine_similarity(vec1, vec2) ==
    LET intersection == DOMAIN vec1 \cap DOMAIN vec2
        numerator == SumOver([x \in intersection |-> vec1[x] * vec2[x]], intersection)
        sum1 == SumOver([x \in DOMAIN vec1 |-> vec1[x] * vec1[x]], DOMAIN vec1)
        sum2 == SumOver([x \in DOMAIN vec2 |-> vec2[x] * vec2[x]], DOMAIN vec2)
    IN  IF intersection = {} \/ sum1 = 0 \/ sum2 = 0
        THEN [num |-> 0, sum1 |-> sum1, sum2 |-> sum2]
        ELSE [num |-> numerator, sum1 |-> sum1, sum2 |-> sum2]

\* A score is [num, sum1, sum2, bonus]: 1000*num/(sqrt(sum1)*sqrt(sum2)) + bonus.
\* ScoreGreater(a, b) is a > b for two scores of one text (a.sum1 = b.sum1),
\* decided exactly: after multiplying both by sqrt(72*sum1)/200 (sum2 divides
\* 72 for the vocabularies of 12, 9 and 8 words) the comparison reads
\*     sqrt(P) - sqrt(Q) > d * sqrt(T)
\* with P = 25*a.num^2*(72/a.sum2), Q likewise for b, d = (b.bonus-a.bonus)/100
\* and T = 18*sum1, which squaring settles in integers.
ScoreGreater(a, b) ==
    LET P == 25 * a.num * a.num * (72 \div a.sum2)
        Q == 25 * b.num * b.num * (72 \div b.sum2)
        d == (b.bonus - a.bonus) \div 100
        F == d * d * 18 * a.sum1
    IN  IF d >= 0
        THEN P - Q - F > 0 /\ (P - Q - F) * (P - Q - F) > 4 * Q * F
        ELSE Q - P - F < 0 \/ 4 * P * F > (Q - P - F) * (Q - P - F)

\* variant of max_key: among equal scores the last key wins
max_key_last(keys, scores) ==
    LET best[i \in 1..Len(keys)] ==
            IF i = 1 THEN keys[1]
            ELSE IF ScoreGreater(scores[best[i - 1]], scores[keys[i]])
                 THEN best[i - 1] ELSE keys[i]
    IN  best[Len(keys)]

\* max(scores, key=scores.get): the first key, in the dict's order, that no
\* later key beats
max_key(keys, scores) ==
    LET best[i \in 1..Len(keys)] ==
            IF i = 1 THEN keys[1]
            ELSE IF ScoreGreater(scores[keys[i]], scores[best[i - 1]])
                 THEN keys[i] ELSE best[i - 1]
    IN  best[Len(keys)]

\* --------------------------------------------------- analyze_text_chronology
None == [isNone |-> TRUE, chars |-> <<>>]
Str(s) == [isNone |-> FALSE, chars |-> s]

Returned(year, matched) == [exc |-> "none", year |-> year, matched |-> matched]
Raised(e) == [exc |-> e, year |-> 0, matched |-> 0]

AddBonus(score, b) == [score EXCEPT !.bonus = @ + b]

\* the score map after the similarity loop and the readability adjustment
era_scores(text, words) ==
    LET text_vector == Counter(words)
        scores == [year \in Range(ANCHORS) |->
                     LET similarity == safe_cosine_similarity(text_vector,
                                           vocab_vector(ARCHAIC_VOCABULARY[year]))
                     IN  [num |-> similarity.num, sum1 |-> similarity.sum1,
                          sum2 |-> similarity.sum2, bonus |-> 0]]
        readability == safe_calculate_flesch_reading_ease(text)
    IN  IF ReadLess(readability, 40)
        THEN [scores EXCEPT ![1300] = AddBonus(@, 500), ![1500] = AddBonus(@, 300)]
        ELSE IF ReadGreater(readability, 70)
             THEN [scores EXCEPT ![1900] = AddBonus(@, 500)]
             ELSE scores

archaic_words == UNION {ARCHAIC_VOCABULARY[year] : year \in DOMAIN ARCHAIC_VOCABULARY}

IsArchaic(word) == word \in archaic_words

\* variant of total_matches: every distinct word counted once
total_matches_distinct(words) == Cardinality({w \in Range(words) : IsArchaic(w)})

\* sum(1 for word in words if word in archaic_words)
total_matches(words) == Len(SelectSeq(words, IsArchaic))

\* the text argument is an optional string; len(text) in the first log line
\* raises TypeError for None before the guard is reached
analyze_text_chronology(text) ==
    IF text.isNone
    THEN Raised("TypeError")
    ELSE IF text.chars = <<>> \/ Len(strip(text.chars)) < 5
    THEN Returned(1500, 0)
    ELSE LET words == findall_words(lower(text.chars), 1, <<>>)
         IN  IF words = <<>>
             THEN Returned(1500, 0)
             ELSE LET scores == era_scores(text.chars, words)
                  IN  IF DOMAIN scores = {}
                      THEN Returned(1500, 0)
                      ELSE Returned(max_key(ANCHORS, scores), total_matches(words))

\* main.py carries a copy of the same function
main_analyze_text_chronology(text) == analyze_text_chronology(text)

\* -------------------------------------------------------------- request texts
Pieces == { <<"t","h","o","u">>,
            <<"t","h","o","u"," ">>,
            <<"U","n","t","o"," ">>,
            <<"d","a","t","a"," ">>,
            <<"r","e","a","s","o","n"," ">>,
            <<".",".">>,
            <<" ">> }

RECURSIVE TextsOf(_)
TextsOf(k) == IF k = 0 THEN {<<>>}
              ELSE LET shorter == TextsOf(k - 1)
                   IN  shorter \cup {t \o p : t \in shorter, p \in Pieces}

Texts == TextsOf(MaxPieces)

\* texts of the requests sent to the two front ends
RequestTexts == { <<>>,
                  <<" ">>,
                  <<"t","h","o","u">>,
                  <<"a","b"," ","a","b"," ">>,
                  <<"t","h","o","u"," ","t","h","o","u"," ">> }

\* settings.AUTH_TOKEN / AUTH_TOKEN_EXPECTED and a token that differs from it
AUTH_TOKEN == "111517"
Tokens == {AUTH_TOKEN, "000000"}

\* what one POST to the collector can end in: an HTTP status, or an exception
\* of the HTTP client
Status(code) == [kind |-> "status", code |-> code]
Failure(e) == [kind |-> e, code |-> 0]
StatusCodes == {200, 201, 500}
Responses == {Status(c) : c \in StatusCodes}
             \cup {Failure("ConnectionError"), Failure("Timeout")}

VARIABLES
    text,         \* the text under analysis: [isNone, chars]
    fnTasks,      \* result of a direct call of tasks.analyze_text_chronology
    fnMain,       \* result of a direct call of main.analyze_text_chronology
    viewResp,     \* HTTP status the Django view answered, 0 before it ran
    taskPc,       \* "none", "queued", "posting", "returned", "raised"
    retries,      \* self.request.retries of the current execution
    attempt,      \* loop variable of the delivery loop
    analysed,     \* what analyze_text_chronology returned in this execution
    result_data,  \* the payload built by the current execution
    resps,        \* what each POST of the task ended in, in order
    lastPost,     \* the payload of the latest POST of the task
    taskOutcome,  \* return value or exception the task ended with
    syncPc,       \* "idle", "awaiting", "done" (FastAPI handler)
    syncCalc,     \* what analyze_text_chronology returned to the handler
    syncPost,     \* the payload the handler POSTed
    syncOutcome,  \* what the handler's POST ended in
    syncResp      \* the ChronoResult (or HTTP error) given to the caller

fnVars == <<fnTasks, fnMain>>
queueVars == <<viewResp, taskPc, retries, attempt, analysed, result_data, resps,
               lastPost, taskOutcome>>
syncVars == <<syncPc, syncCalc, syncPost, syncOutcome, syncResp>>
vars == <<text, fnVars, queueVars, syncVars>>

Pending == [exc |-> "pending", year |-> 0, matched |-> 0]
NoPayload == [result_from_year |-> 0, result_to_year |-> 0, matched_layers |-> 0]
NoOutcome == [kind |-> "none", status |-> "none"]
NoResponse == [kind |-> "none", code |-> 0]
NoResult == [http |-> 0, status |-> "none", year |-> 0, matched_layers |-> 0]

InitIdle ==
    /\ fnTasks = Pending
    /\ fnMain = Pending
    /\ viewResp = 0
    /\ taskPc = "none"
    /\ retries = 0
    /\ attempt = 0
    /\ analysed = Pending
    /\ result_data = NoPayload
    /\ resps = <<>>
    /\ lastPost = NoPayload
    /\ taskOutcome = NoOutcome
    /\ syncPc = "idle"
    /\ syncCalc = Pending
    /\ syncPost = NoPayload
    /\ syncOutcome = NoResponse
    /\ syncResp = NoResult

\* --------------------------------------------- direct calls of the estimator
InitFn ==
    /\ text \in {None} \cup {Str(t) : t \in Texts}
    /\ InitIdle

CallTasksAnalyze ==
    /\ fnTasks = Pending
    /\ fnTasks' = analyze_text_chronology(text)
    /\ UNCHANGED <<text, fnMain, queueVars, syncVars>>

CallMainAnalyze ==
    /\ fnMain = Pending
    /\ fnMain' = main_analyze_text_chronology(text)
    /\ UNCHANGED <<text, fnTasks, queueVars, syncVars>>

NextFn == CallTasksAnalyze \/ CallMainAnalyze

SpecFn == InitFn /\ [][NextFn]_vars

\* ------------------------------------- Django view and Celery task (tasks.py)
\* not text or not text.strip()
IsBlank(chars) == chars = <<>> \/ strip(chars) = <<>>

\* views.calculate_chrono: 400 for an invalid body, 403 for a wrong token,
\* 400 for a blank text, otherwise the task is queued and 202 answered
views_calculate_chrono(valid, token) ==
    /\ viewResp = 0
    /\ IF ~valid
       THEN viewResp' = 400 /\ UNCHANGED taskPc
       ELSE IF token # AUTH_TOKEN
       THEN viewResp' = 403 /\ UNCHANGED taskPc
       ELSE IF IsBlank(text.chars)
       THEN viewResp' = 400 /\ UNCHANGED taskPc
       ELSE viewResp' = 202 /\ taskPc' = "queued"
    /\ UNCHANGED <<text, fnVars, retries, attempt, analysed, result_data, resps,
                   lastPost, taskOutcome, syncVars>>

\* @shared_task(bind=True, max_retries=3)
TASK_MAX_RETRIES == 3

\* max_retries = 3 of the delivery loop
LOOP_MAX_RETRIES == 3

FALLBACK_YEARS == {1300, 1500, 1700, 1900}
FALLBACK_COUNTS == 1..5

Payload(year, matched) ==
    [result_from_year |-> year, result_to_year |-> year + 50, matched_layers |-> matched]

\* one execution of calculate_chrono_async up to the delivery loop: the
\* estimate, the random fallback when nothing matched, the payload
calculate_chrono_async_begin(year, count) ==
    /\ taskPc = "queued"
    /\ LET res == analyze_text_chronology(text)
       IN  /\ analysed' = res
           /\ IF res.exc # "none"
              THEN /\ taskPc' = "raised"
                   /\ taskOutcome' = [kind |-> "raised", status |-> res.exc]
                   /\ UNCHANGED <<result_data, attempt>>
              ELSE /\ result_data' = IF res.matched = 0
                                     THEN Payload(year, count)
                                     ELSE Payload(res.year, res.matched)
                   /\ attempt' = 0
                   /\ taskPc' = "posting"
                   /\ UNCHANGED taskOutcome
    /\ UNCHANGED <<text, fnVars, viewResp, retries, resps, lastPost, syncVars>>

\* resp.status_code == 200
IsAccepted(resp) == resp.kind = "status" /\ resp.code = 200

\* self.retry(countdown=5) of a task run by a worker: MaxRetriesExceededError
\* once request.retries + 1 exceeds the task's max_retries, otherwise the task
\* is queued again with retries + 1 and Retry is raised
self_retry ==
    IF retries + 1 > TASK_MAX_RETRIES
    THEN /\ taskPc' = "raised"
         /\ taskOutcome' = [kind |-> "raised", status |-> "MaxRetriesExceededError"]
         /\ UNCHANGED retries
    ELSE /\ taskPc' = "queued"
         /\ retries' = retries + 1
         /\ UNCHANGED taskOutcome

\* one round of the delivery loop: the POST and what the code does with its end
calculate_chrono_async_post(resp) ==
    /\ taskPc = "posting"
    /\ resps' = Append(resps, resp)
    /\ lastPost' = result_data
    /\ IF resp.kind = "status"
       THEN IF IsAccepted(resp)
            THEN /\ taskPc' = "returned"
                 /\ taskOutcome' = [kind |-> "returned", status |-> "success"]
                 /\ UNCHANGED <<attempt, retries>>
            ELSE IF attempt + 1 < LOOP_MAX_RETRIES
                 THEN /\ attempt' = attempt + 1
                      /\ UNCHANGED <<taskPc, taskOutcome, retries>>
                 ELSE /\ taskPc' = "returned"
                      /\ taskOutcome' = [kind |-> "returned", status |-> "failed"]
                      /\ UNCHANGED <<attempt, retries>>
       ELSE IF attempt < LOOP_MAX_RETRIES - 1
            THEN self_retry /\ UNCHANGED attempt
            ELSE /\ taskPc' = "raised"
                 /\ taskOutcome' = [kind |-> "raised", status |-> resp.kind]
                 /\ UNCHANGED <<attempt, retries>>
    /\ UNCHANGED <<text, fnVars, viewResp, analysed, result_data, syncVars>>

InitQueue ==
    /\ text \in {Str(t) : t \in RequestTexts}
    /\ InitIdle

NextQueue ==
    \/ \E valid \in BOOLEAN, token \in Tokens : views_calculate_chrono(valid, token)
    \/ \E year \in FALLBACK_YEARS, count \in FALLBACK_COUNTS :
           calculate_chrono_async_begin(year, count)
    \/ \E resp \in Responses : calculate_chrono_async_post(resp)

Spec == InitQueue /\ [][NextQueue]_vars

\* -------------------------------------------- FastAPI handler (main.py)
\* what the handler's single POST can end in: a status, or an exception of
\* the HTTP client or of anything else inside the inner try
SyncOutcomes == {Status(c) : c \in {200, 201, 204, 404, 500}}
                \cup {Failure("ConnectError"), Failure("TimeoutException"),
                      Failure("ValueError")}

\* the exception the inner try block ends with: raise_for_status() raises
\* HTTPStatusError for a 4xx or 5xx status; ConnectError, TimeoutException and
\* HTTPStatusError are httpx.HTTPError, anything else is a plain Exception
inner_exception(outcome) ==
    IF outcome.kind = "status"
    THEN IF outcome.code >= 400 THEN "HTTPError" ELSE "none"
    ELSE IF outcome.kind \in {"ConnectError", "TimeoutException"}
         THEN "HTTPError"
         ELSE "Exception"

\* variant of caught_by_inner_try: only the httpx.HTTPError clause
caught_by_inner_try_http_only(exc) == exc = "HTTPError"

\* the two except clauses of the inner try: httpx.HTTPError, then Exception
caught_by_inner_try(exc) == exc \in {"HTTPError", "Exception"}

ChronoResult(status, year, matched) ==
    [http |-> 200, status |-> status, year |-> year, matched_layers |-> matched]

\* calculate_chrono up to the POST: token check, blank check, the estimate,
\* the payload (no fallback in this front end)
main_calculate_chrono_begin(token) ==
    /\ syncPc = "idle"
    /\ IF token # AUTH_TOKEN
       THEN /\ syncResp' = [NoResult EXCEPT !.http = 403]
            /\ syncPc' = "done"
            /\ UNCHANGED <<syncCalc, syncPost>>
       ELSE IF text.isNone \/ IsBlank(text.chars)
       THEN /\ syncResp' = ChronoResult("skipped", 0, 0)
            /\ syncPc' = "done"
            /\ UNCHANGED <<syncCalc, syncPost>>
       ELSE LET res == main_analyze_text_chronology(text)
            IN  /\ syncCalc' = res
                /\ IF res.exc # "none"
                   THEN /\ syncResp' = ChronoResult("error", 0, 0)
                        /\ syncPc' = "done"
                        /\ UNCHANGED syncPost
                   ELSE /\ syncPost' = Payload(res.year, res.matched)
                        /\ syncPc' = "awaiting"
                        /\ UNCHANGED syncResp
    /\ UNCHANGED <<text, fnVars, queueVars, syncOutcome>>

\* calculate_chrono from the end of the POST on: the inner try and its except
\* clauses, then the ChronoResult; an exception leaving the inner try would
\* reach the outer except and give status "error"
main_calculate_chrono_finish(outcome) ==
    /\ syncPc = "awaiting"
    /\ syncOutcome' = outcome
    /\ LET exc == inner_exception(outcome)
       IN  syncResp' = IF exc = "none" \/ caught_by_inner_try(exc)
                       THEN ChronoResult("success", syncCalc.year, syncCalc.matched)
                       ELSE ChronoResult("error", 0, 0)
    /\ syncPc' = "done"
    /\ UNCHANGED <<text, fnVars, queueVars, syncCalc, syncPost>>

InitSync ==
    /\ text \in {None} \cup {Str(t) : t \in Texts}
    /\ InitIdle

NextSync ==
    \/ \E token \in Tokens : main_calculate_chrono_begin(token)
    \/ \E outcome \in SyncOutcomes : main_calculate_chrono_finish(outcome)

SpecSync == InitSync /\ [][NextSync]_vars

\* ===================================================================== claims
Is2xx(resp) == resp.kind = "status" /\ resp.code \in 200..299

ConnectionFailuresBefore(k) == \A i \in 1..(k - 1) : resps[i].kind = "ConnectionError"

\* C1: over the delivery loop and every re-execution started by self.retry,
\* one request is POSTed to the collector at most 3 times.
C1_AtMostThreePosts == Len(resps) <= 3

\* C2: the task never returns a value unless the collector accepted the result
\* with a success status; exhausted attempts end in a raised error.
C2_ExhaustionRaises ==
    taskPc = "returned" => \E i \in 1..Len(resps) : Is2xx(resps[i])

\* C3: when the first k-1 attempts (1 <= k <= 3) end in a connection failure
\* and attempt k is answered with a success status, the task has made exactly
\* k POSTs and has returned status "success".
C3_SuccessAfterFailures ==
    \A k \in 1..3 :
        (Len(resps) >= k /\ ConnectionFailuresBefore(k) /\ Is2xx(resps[k]))
        => (Len(resps) = k /\ taskPc = "returned" /\ taskOutcome.status = "success")

\* The same with the one status the task accepts: k-1 connection failures and
\* then a 200 give exactly k POSTs and status "success".
DispatchStopsAtFirst200 ==
    \A k \in 1..3 :
        (Len(resps) >= k /\ ConnectionFailuresBefore(k) /\ resps[k] = Status(200))
        => (Len(resps) = k /\ taskPc = "returned" /\ taskOutcome.status = "success")

\* C4: in both front ends any 2xx answer of the collector ends the dispatch
\* with success: it is the last POST of the request and status "success" is
\* reported.
C4_Any2xxIsSuccess ==
    /\ \A i \in 1..Len(resps) :
           Is2xx(resps[i])
           => (i = Len(resps) /\ taskPc = "returned" /\ taskOutcome.status = "success")
    /\ (syncPc = "done" /\ Is2xx(syncOutcome)) => syncResp.status = "success"

\* C5: in both front ends, when analyze_text_chronology returned a matched
\* count of 0, the payload given to the collector (and the result given to the
\* caller) has a year in {1300, 1500, 1700, 1900} and a count in 1..5; no
\* payload with matched_layers = 0 is sent.
C5_FallbackInvariant ==
    /\ (taskPc = "posting" /\ analysed.exc = "none" /\ analysed.matched = 0)
       => (result_data.result_from_year \in FALLBACK_YEARS
           /\ result_data.matched_layers \in FALLBACK_COUNTS)
    /\ (resps # <<>>) => lastPost.matched_layers # 0
    /\ (syncPc \in {"awaiting", "done"} /\ syncCalc.exc = "none" /\ syncCalc.matched = 0)
       => (syncPost.result_from_year \in FALLBACK_YEARS
           /\ syncPost.matched_layers \in FALLBACK_COUNTS)
    /\ (syncPc = "done" /\ syncCalc.exc = "none" /\ syncCalc.matched = 0
        /\ syncResp.status = "success")
       => (syncResp.year \in FALLBACK_YEARS /\ syncResp.matched_layers \in FALLBACK_COUNTS)

IsGuardInput(t) == t.isNone \/ t.chars = <<>> \/ Len(strip(t.chars)) < 5

\* C6: for every text that is None, empty or of trimmed length < 5,
\* analyze_text_chronology returns (1500, 0) and does not raise.
C6_GuardTotal ==
    /\ (fnTasks # Pending /\ IsGuardInput(text)) => fnTasks = Returned(1500, 0)
    /\ (fnMain # Pending /\ IsGuardInput(text)) => fnMain = Returned(1500, 0)

\* C7: in main.py, once the estimate is computed, whatever the POST to the
\* collector ends in, the caller gets status "success" with exactly the
\* computed year and matched_layers.
C7_DeliveryLeavesResponse ==
    (syncPc = "done" /\ syncCalc.exc = "none")
    => syncResp = ChronoResult("success", syncCalc.year, syncCalc.matched)

\* a delivery that failed with an exception that is not an httpx.HTTPError,
\* after a positive estimate, and the caller still got the estimate
C7_Witness ==
    /\ syncPc = "done"
    /\ syncOutcome = Failure("ValueError")
    /\ syncCalc.exc = "none" /\ syncCalc.matched > 0
    /\ syncResp.status = "success"

\* the word tokens of a text, stated by position: <<i, j>> is a token span of
\* s when s[i..j] is a maximal run of word characters
IsTokenStart(s, i) == IsWordChar(s[i]) /\ (i = 1 \/ ~IsWordChar(s[i - 1]))
TokenEnd(s, i) ==
    CHOOSE j \in i..Len(s) :
        /\ \A k \in i..j : IsWordChar(s[k])
        /\ (j = Len(s) \/ ~IsWordChar(s[j + 1]))
TokenStarts(s) == {i \in 1..Len(s) : IsTokenStart(s, i)}
TokenCount(chars) == Cardinality(TokenStarts(lower(chars)))
VocabOccurrences(chars) ==
    LET s == lower(chars)
    IN  Cardinality({i \in TokenStarts(s) : SubSeq(s, i, TokenEnd(s, i)) \in archaic_words})

\* C8 (as stated): for every text the returned matchedLayers equals the number
\* of word-token occurrences of the text that belong to the union of the four
\* vocabularies, hence lies between 0 and the token count.
C8_MatchedEqualsOccurrences ==
    /\ fnTasks.exc = "none"
       => (fnTasks.matched = VocabOccurrences(text.chars)
           /\ fnTasks.matched \in 0..TokenCount(text.chars))
    /\ fnMain.exc = "none"
       => (fnMain.matched = VocabOccurrences(text.chars)
           /\ fnMain.matched \in 0..TokenCount(text.chars))

MatchedAsAmended(res) ==
    res.exc = "none"
    => /\ Len(strip(text.chars)) >= 5 => res.matched = VocabOccurrences(text.chars)
       /\ Len(strip(text.chars)) < 5 => res.matched = 0
       /\ res.matched \in 0..TokenCount(text.chars)

\* C8 (amended): for every text of trimmed length >= 5 the returned
\* matchedLayers equals the number of word-token occurrences of the lower-cased
\* text that belong to the union of the four vocabularies; for a shorter text
\* it is 0; in both cases 0 <= matchedLayers <= token count.
C8_MatchedEqualsOccurrencesLongText ==
    MatchedAsAmended(fnTasks) /\ MatchedAsAmended(fnMain)

\* a text with a repeated vocabulary word: more occurrences than distinct words
C8_Witness ==
    /\ fnTasks.exc = "none"
    /\ Len(strip(text.chars)) >= 5
    /\ fnTasks.matched >= 2
    /\ fnTasks.matched > Cardinality({w \in Range(findall_words(lower(text.chars), 1, <<>>)) :
                                         IsArchaic(w)})

WordsOf(chars) == findall_words(lower(chars), 1, <<>>)
ScoresOf(chars) == era_scores(chars, WordsOf(chars))
AnchorSet == Range(ANCHORS)

\* y has a maximal score and is the lowest anchor that has it
FirstMaximal(y, scores) ==
    /\ \A z \in AnchorSet : ~ScoreGreater(scores[z], scores[y])
    /\ \A z \in AnchorSet : z < y => ScoreGreater(scores[y], scores[z])

MiddleBand(chars) ==
    LET r == safe_calculate_flesch_reading_ease(chars)
    IN  ~ReadLess(r, 40) /\ ~ReadGreater(r, 70)

SelectionAsStated(res) ==
    (res.exc = "none" /\ Len(strip(text.chars)) >= 5)
    => /\ FirstMaximal(res.year, ScoresOf(text.chars))
       /\ (VocabOccurrences(text.chars) = 0 /\ MiddleBand(text.chars)) => res.year = 1300

\* C9 (as stated): the returned anchor has a maximal adjusted score and is the
\* lowest anchor among those that share it; every text of trimmed length >= 5
\* with no vocabulary hit and readability in [40, 70] yields 1300.
C9_FirstMaximalAnchor == SelectionAsStated(fnTasks) /\ SelectionAsStated(fnMain)

SelectionAsAmended(res) ==
    (res.exc = "none" /\ Len(strip(text.chars)) >= 5)
    => IF WordsOf(text.chars) = <<>>
       THEN res.year = 1500
       ELSE /\ FirstMaximal(res.year, ScoresOf(text.chars))
            /\ (VocabOccurrences(text.chars) = 0 /\ MiddleBand(text.chars))
               => res.year = 1300

\* C9 (amended): for a text of trimmed length >= 5 that has at least one word
\* token the returned anchor has a maximal adjusted score and is the lowest
\* anchor among those that share it, so with no vocabulary hit and readability
\* in [40, 70] it is 1300; a text of trimmed length >= 5 without any word token
\* yields 1500.
C9_FirstMaximalAnchorOfTokens == SelectionAsAmended(fnTasks) /\ SelectionAsAmended(fnMain)

\* a four-way tie: a text with word tokens, no vocabulary hit and no bonus
C9_Witness ==
    /\ fnTasks.exc = "none"
    /\ Len(strip(text.chars)) >= 5
    /\ WordsOf(text.chars) # <<>>
    /\ \A z \in AnchorSet : ScoresOf(text.chars)[z].num = 0 /\ ScoresOf(text.chars)[z].bonus = 0
    /\ fnTasks.year = 1300

\* C10: every POST made for one request carries the same payload, also after
\* a Celery retry re-executed the task and also for a fallback result.
C10_PayloadFixed == [][resps # <<>> => lastPost' = lastPost]_vars

====
